---------------------------- MODULE Spec2Model ----------------------------
(* State-machine model of src/page.py: the presence relay's four shared   *)
(* dicts (clients, positions, sprites, names), one websocket(ws) handler  *)
(* thread per connection and the cleanup_disconnected_clients thread.     *)
(*                                                                        *)
(* Threads run under CPython's interpreter lock: one dict operation is    *)
(* atomic, a thread switch can fall between any two of them.  A handler's *)
(* position is the source line it executes next ("L97", "L136", ...).     *)
(* An action is one dict operation, or a run of operations that commutes  *)
(* with every step of the other threads (a loop iteration: next() on the  *)
(* dict iterator, building the payload, the send).  That a peer has gone  *)
(* away shows only in the outcome of a send or a receive on its           *)
(* connection, so the model decides it there.                             *)
EXTENDS Integers, Sequences, FiniteSets, TLC

\* ------------------------------------------------------------- bounds
MaxSessions == 3      \* connections the server accepts in a run
MaxDrops == 1         \* connections whose peer goes away in a run
MaxFrames == 1        \* inbound frames received in a run, all sessions
MaxTicks == 1         \* sweeper ticks in a run
MaxPreempt == 1       \* switches away from a thread inside an operation
MaxEvents == 2        \* frames, ticks and preemptions in a run, together

Ids == 1..MaxSessions \* id(ws) of each connection

\* ----------------------------------------------------- program values
DefaultPos == <<100, 100>>
DefaultSprite == "new player"
MovePos == <<5, 7>>
NewSprite == "cat"
NewName == "Zed"
ChatText == "hi"
NoPos == <<>>
NoStr == ""
DictUsable == 5

\* assign_display_name's f"Player{name_counter}"
PlayerName(n) == "Player" \o ToString(n)

\* ------------------------------------------------------ CPython dict
\* A dict is its entry array in insertion order (ord: a key, or 0 for a
\* deleted slot) and the value of each live key (val; None for the rest).
EmptyDict(none) == [ord |-> <<>>, val |-> [k \in Ids |-> none]]

DKeys(d) == {d.ord[i] : i \in 1..Len(d.ord)} \ {0}

DHas(d, k) == k \in DKeys(d)

DUsed(d) == Cardinality(DKeys(d))

RECURSIVE LiveKeys(_)
LiveKeys(s) ==
    IF s = <<>> THEN <<>>
    ELSE IF Head(s) = 0 THEN LiveKeys(Tail(s))
    ELSE <<Head(s)>> \o LiveKeys(Tail(s))

\* d[k] = v: an existing key keeps its slot, a new key is appended; when
\* the entry array is full the dict is resized, which drops deleted slots.
DSet(d, k, v) ==
    [ord |-> IF DHas(d, k) THEN d.ord
             ELSE IF Len(d.ord) >= DictUsable THEN Append(LiveKeys(d.ord), k)
             ELSE Append(d.ord, k),
     val |-> [d.val EXCEPT ![k] = v]]

\* del d[k] for a key that is present: the slot stays, marked deleted.
DDel(d, k, none) ==
    [ord |-> [i \in 1..Len(d.ord) |-> IF d.ord[i] = k THEN 0 ELSE d.ord[i]],
     val |-> [d.val EXCEPT ![k] = none]]

\* list(d.items()) / list(d.keys()): the live keys in insertion order.
DList(d) == LiveKeys(d.ord)

\* list(d.values())
DValues(d) == [i \in 1..Len(DList(d)) |-> d.val[DList(d)[i]]]

\* iter(d.items()): position in the entry array, the size at creation and
\* the number of items still expected.
NewIter(d) == [pos |-> 1, used |-> DUsed(d), len |-> DUsed(d)]

NoIter == [pos |-> 0, used |-> 0, len |-> 0]

RECURSIVE SkipDeleted(_, _)
SkipDeleted(ord, i) ==
    IF i <= Len(ord) /\ ord[i] = 0 THEN SkipDeleted(ord, i + 1) ELSE i

\* next(iterator): "error" (RuntimeError: the dict changed size, or its
\* keys changed, during iteration), "stop" (StopIteration) or "item".
IterNext(d, i) ==
    LET p == SkipDeleted(d.ord, i.pos) IN
    IF i.used # DUsed(d) THEN [r |-> "error", key |-> 0, it |-> NoIter]
    ELSE IF p > Len(d.ord) THEN [r |-> "stop", key |-> 0, it |-> NoIter]
    ELSE IF i.len = 0 THEN [r |-> "error", key |-> 0, it |-> NoIter]
    ELSE [r |-> "item", key |-> d.ord[p],
          it |-> [pos |-> p + 1, used |-> i.used, len |-> i.len - 1]]


\* ----------------------------------------------------------- messages
\* What json.dumps is given, one record shape for every message type.
Msg(type, id, pos, sprite, name, text, users) ==
    [type |-> type, id |-> id, pos |-> pos, sprite |-> sprite,
     name |-> name, text |-> text, users |-> users]

NewPlayerMsg(id, pos, sprite, name) ==
    Msg("new_player", id, pos, sprite, name, NoStr, <<>>)

MoveMsg(id, pos) == Msg("move", id, pos, NoStr, NoStr, NoStr, <<>>)

ChatMsg(id, name, text) == Msg("chat", id, NoPos, NoStr, name, text, <<>>)

SpriteMsg(id, sprite) ==
    Msg("update_sprite", id, NoPos, sprite, NoStr, NoStr, <<>>)

NameMsg(id, name) == Msg("update_name", id, NoPos, NoStr, name, NoStr, <<>>)

UserNamesMsg(users) == Msg("user_names", 0, NoPos, NoStr, NoStr, NoStr, users)

ErrorMsg(text) == Msg("error", 0, NoPos, NoStr, NoStr, text, <<>>)

\* One ws.send call: the recipient, whether it returned (ok) or raised.
Sent(to, ok, msg) == [to |-> to, ok |-> ok, msg |-> msg]

\* ------------------------------------------------------ inbound frames
\* raw as ws.receive() returns it: text json.loads rejects ("badjson"),
\* bytes it cannot read ("badbytes"), a JSON value that is no object
\* ("nonobject"), or an object with the fields in has.
Frame(kind, type, has) == [kind |-> kind, type |-> type, has |-> has]

\* What a handler is doing when it is not processing a frame.
NoFrame == Frame("none", NoStr, {})

ConnectOp == Frame("connect", NoStr, {})

CloseOp == Frame("close", NoStr, {})

Required(type) ==
    CASE type = "move" -> {"x", "y"}
      [] type = "chat" -> {"message"}
      [] type = "update_sprite" -> {"sprite"}
      [] type = "update_name" -> {"name"}
      [] OTHER -> {}

KnownTypes == {"move", "chat", "update_sprite", "update_name"}

\* The frames of a run: one of each kind that takes its own path
\* through lines 136-223.
Frames ==
    {Frame("badjson", NoStr, {}), Frame("badbytes", NoStr, {}),
     Frame("nonobject", NoStr, {}), Frame("object", NoStr, {}),
     Frame("object", "dance", {"type"}),
     Frame("object", "move", {"type", "x", "y"}),
     Frame("object", "move", {"type", "y"}),
     Frame("object", "chat", {"type", "message"}),
     Frame("object", "chat", {"type"}),
     Frame("object", "update_sprite", {"type", "sprite"}),
     Frame("object", "update_sprite", {"type"}),
     Frame("object", "update_name", {"type", "name"}),
     Frame("object", "update_name", {"type"})}

\* ---------------------------------------------------------------- state
VARIABLES
    clients,       \* dict id -> ws (the ws is named by its id)
    positions,     \* dict id -> <<x, y>>
    sprites,       \* dict id -> sprite
    names,         \* dict id -> display name
    name_counter,
    connected,     \* per connection: no send or receive on it has found
                   \* the transport down
    pc,            \* per handler: the line it executes next
    it,            \* per handler: the dict iterator of its current loop
    myname,        \* per handler: assign_display_name()'s return value
    op,            \* per handler: the frame (data), or the connect or
                   \* close, it is processing
    began,         \* per handler: the keys of clients, and the count
                   \* of preemptions, when op began
    sends,         \* per handler: the ws.send calls of op, in order
    sw,            \* the cleanup thread: line, snapshots and indexes
    swSends,       \* the cleanup thread's user_names sends of one removal
    frames,        \* frames received so far
    ticks,         \* sweeper ticks so far
    drops,         \* connections found down so far
    running,       \* the thread that ran last, if inside an operation
                   \* (a set of at most one thread)
    preempts,      \* switches away from such a thread so far
    delCount,      \* per id: executions of del clients[id]
    evicted,       \* ids the cleanup thread has finished removing
    unregistered,  \* ids whose handler has finished lines 228-235
    unCount        \* [d][r]: user_names sends to r that returned, made
                   \* on the departure of d by either thread

vars == <<clients, positions, sprites, names, name_counter, connected, pc,
          it, myname, op, began, sends, sw, swSends, frames, ticks, drops,
          running, preempts, delCount, evicted, unregistered, unCount>>

dicts == <<clients, positions, sprites, names>>

hist == <<delCount, evicted, unregistered, unCount>>

swVars == <<sw, swSends, ticks>>

net == <<connected, drops>>

\* A handler thread is named by its connection's id, the cleanup thread
\* by 0.
CleanupThread == 0

NotBegun == [reg |-> {}, preempts |-> 0]

SwIdle == [pc |-> "L51", snap |-> <<>>, idx |-> 0, notify |-> <<>>, nidx |-> 0]

Init ==
    /\ clients = EmptyDict(0)
    /\ positions = EmptyDict(NoPos)
    /\ sprites = EmptyDict(NoStr)
    /\ names = EmptyDict(NoStr)
    /\ name_counter = 1
    /\ connected = [c \in Ids |-> TRUE]
    /\ pc = [c \in Ids |-> "idle"]
    /\ it = [c \in Ids |-> NoIter]
    /\ myname = [c \in Ids |-> NoStr]
    /\ op = [c \in Ids |-> NoFrame]
    /\ began = [c \in Ids |-> NotBegun]
    /\ sends = [c \in Ids |-> <<>>]
    /\ sw = SwIdle
    /\ swSends = <<>>
    /\ frames = 0
    /\ ticks = 0
    /\ drops = 0
    /\ running = {}
    /\ preempts = 0
    /\ delCount = [c \in Ids |-> 0]
    /\ evicted = {}
    /\ unregistered = {}
    /\ unCount = [d \in Ids |-> [r \in Ids |-> 0]]

\* Lines at which a handler is outside every operation: not yet called,
\* blocked in ws.receive(), returned, or left by an exception.
Resting == {"idle", "L136", "done", "dead"}

\* Lines at which an operation has ended and its handler has not moved
\* on: the top of the receive loop (a connect's end, a frame's continue),
\* the return out of websocket(ws), an exception leaving it.
Ended == {"L135", "return", "raise"}

\* One more frame, tick or preemption is within the run's bounds.
MayHappen(n, max) == n < max /\ frames + ticks + preempts < MaxEvents

\* The scheduler: thread t takes the step.  Taking over from a thread
\* that is inside an operation is a preemption; a handler whose next
\* step touches only its own locals (MoveOn) is left to take it.
Run(t, inside) ==
    /\ \/ running \subseteq {t}
       \/ MayHappen(preempts, MaxPreempt)
          /\ \A u \in running \cap Ids : pc[u] \notin Ended
    /\ preempts' = IF running \subseteq {t} THEN preempts ELSE preempts + 1
    /\ running' = IF inside THEN {t} ELSE {}

\* A handler step: the handler is inside an operation until it rests.
Sched(c) == Run(c, pc'[c] \notin Resting)

\* A step of the cleanup thread, inside its loop until it sleeps.
SchedCleanup == Run(CleanupThread, sw'.pc # "L51")

\* A handler moves to line l.
Goto(c, l) == pc' = [pc EXCEPT ![c] = l]

\* A handler begins operation o: its send log starts as s.
BeginWith(c, o, s) ==
    /\ op' = [op EXCEPT ![c] = o]
    /\ began' = [began EXCEPT ![c] = IF o = NoFrame THEN NotBegun
                                     ELSE [reg |-> DKeys(clients),
                                           preempts |-> preempts]]
    /\ sends' = [sends EXCEPT ![c] = s]

Begin(c, o) == BeginWith(c, o, <<>>)

\* What a send or a receive on connection k can find: a transport found
\* down stays down; one that was up is up (TRUE) or, its peer having gone
\* away, down (FALSE).
Outcomes(k) ==
    IF connected[k] /\ drops < MaxDrops THEN {TRUE, FALSE} ELSE {connected[k]}

\* A send or a receive on connection k finds it up, or down.
Found(k, up) ==
    /\ connected' = [connected EXCEPT ![k] = up]
    /\ drops' = IF connected[k] /\ ~up THEN drops + 1 ELSE drops

\* ws.send(msg) on connection k by handler c: it returns (up) or raises.
Send(c, k, up, msg) ==
    /\ sends' = [sends EXCEPT ![c] = Append(@, Sent(k, up, msg))]
    /\ Found(k, up)

\* The step makes no send.
NoSend == UNCHANGED <<sends, net>>

\* ------------------------------------------------- websocket: connect
\* line 97: clients[client_id] = ws.  Connections get their ids in order.
Connect(c) ==
    /\ pc[c] = "idle"
    /\ \A b \in Ids : b < c => pc[b] # "idle"
    /\ clients' = DSet(clients, c, c)
    /\ Goto(c, "L98")
    /\ Begin(c, ConnectOp)
    /\ UNCHANGED <<positions, sprites, names, name_counter, net, it,
                   myname, swVars, frames, hist>>
    /\ Sched(c)

\* line 98
StorePosition(c) ==
    /\ pc[c] = "L98"
    /\ positions' = DSet(positions, c, DefaultPos)
    /\ Goto(c, "L99")
    /\ UNCHANGED <<clients, sprites, names, name_counter, net, it,
                   myname, op, began, sends, swVars, frames, hist>>
    /\ Sched(c)

\* line 99
StoreSprite(c) ==
    /\ pc[c] = "L99"
    /\ sprites' = DSet(sprites, c, DefaultSprite)
    /\ Goto(c, "L100")
    /\ UNCHANGED <<clients, positions, names, name_counter, net, it,
                   myname, op, began, sends, swVars, frames, hist>>
    /\ Sched(c)

\* assign_display_name that returns the name and leaves the counter alone.
assign_display_name_same(c) ==
    /\ pc[c] = "L100"
    /\ myname' = [myname EXCEPT ![c] = PlayerName(name_counter)]
    /\ Goto(c, "L100s")
    /\ UNCHANGED <<dicts, name_counter, net, it, op, began, sends, swVars,
                   frames, hist>>
    /\ Sched(c)

\* lines 42-47, called from line 100, under name_lock
assign_display_name(c) ==
    /\ pc[c] = "L100"
    /\ myname' = [myname EXCEPT ![c] = PlayerName(name_counter)]
    /\ name_counter' = name_counter + 1
    /\ Goto(c, "L100s")
    /\ UNCHANGED <<dicts, net, it, op, began, sends, swVars,
                   frames, hist>>
    /\ Sched(c)

\* line 100, the store names[client_id] = <the name returned>
StoreName(c) ==
    /\ pc[c] = "L100s"
    /\ names' = DSet(names, c, myname[c])
    /\ Goto(c, "L102")
    /\ UNCHANGED <<clients, positions, sprites, name_counter, net, it,
                   myname, op, began, sends, swVars, frames, hist>>
    /\ Sched(c)

\* line 102 reads names[client_id] for the log: a KeyError there leaves
\* the handler (no try encloses it).  Line 105 then creates the iterator.
LogConnected(c) ==
    /\ pc[c] = "L102"
    /\ IF DHas(names, c)
       THEN /\ Goto(c, "L105")
            /\ it' = [it EXCEPT ![c] = NewIter(clients)]
       ELSE /\ Goto(c, "raise")
            /\ UNCHANGED it
    /\ UNCHANGED <<dicts, name_counter, net, myname, op, began,
                   sends, swVars, frames, hist>>
    /\ Sched(c)

\* lines 105-117, one iteration: the announcement of c to another client.
\* The iterator's RuntimeError is outside every try; a KeyError building
\* the payload and a failing send are inside the try of line 107.
Announce(c) ==
    /\ pc[c] = "L105"
    /\ LET n == IterNext(clients, it[c]) IN
       /\ it' = [it EXCEPT ![c] = IF n.r = "stop" THEN NewIter(positions)
                                  ELSE n.it]
       /\ Goto(c, CASE n.r = "error" -> "raise"
                    [] n.r = "stop" -> "L121"
                    [] OTHER -> "L105")
       /\ IF n.r = "item" /\ n.key # c /\ DHas(positions, c)
             /\ DHas(sprites, c) /\ DHas(names, c)
          THEN \E up \in Outcomes(n.key) :
                   Send(c, n.key, up, NewPlayerMsg(c, positions.val[c],
                                                   sprites.val[c],
                                                   names.val[c]))
          ELSE NoSend
    /\ UNCHANGED <<dicts, name_counter, myname, op, began, swVars, frames,
                   hist>>
    /\ Sched(c)

\* lines 120-132, one iteration: the replay of another client to c.  The
\* whole loop is inside one try: a RuntimeError, a KeyError on
\* sprites[other_id] or names[other_id] and a failing send all end it.
Replay(c) ==
    /\ pc[c] = "L121"
    /\ LET n == IterNext(positions, it[c])
           k == n.key
           skip == n.r = "item" /\ k = c
           build == n.r = "item" /\ k # c /\ DHas(sprites, k) /\ DHas(names, k)
       IN
       /\ it' = [it EXCEPT ![c] = n.it]
       /\ IF build
          THEN \E up \in Outcomes(c) :
                   /\ Send(c, c, up, NewPlayerMsg(k, positions.val[k],
                                                  sprites.val[k],
                                                  names.val[k]))
                   /\ Goto(c, IF up THEN "L121" ELSE "L135")
          ELSE /\ NoSend
               /\ Goto(c, IF skip THEN "L121" ELSE "L135")
    /\ UNCHANGED <<dicts, name_counter, myname, op, began, swVars, frames,
                   hist>>
    /\ Sched(c)

\* ------------------------------------------- websocket: receive loop
\* A frame is received; the frames a peer sent before it went away are
\* still read.
CanReceive(c) ==
    /\ pc[c] = "L136"
    /\ MayHappen(frames, MaxFrames)

GotFrame == frames' = frames + 1

\* lines 136-139 and 224-226: ws.receive() returns None, or raises, once
\* the transport is down; the loop ends and the finally block runs.
RecvClosed(c) ==
    /\ pc[c] = "L136"
    /\ FALSE \in Outcomes(c)
    /\ Found(c, FALSE)
    /\ Goto(c, "L228")
    /\ UNCHANGED <<dicts, name_counter, it, myname, op, began, sends,
                   swVars, frames, hist>>
    /\ Sched(c)

\* RecvUndecodable with the error reply followed by the end of the loop.
RecvUndecodableBreaks(c, f) ==
    /\ CanReceive(c)
    /\ f.kind \in {"badjson", "badbytes"}
    /\ \E up \in Outcomes(c) :
           /\ BeginWith(c, f, <<Sent(c, up, ErrorMsg(IF f.kind = "badjson"
                                                     THEN "invalid_json"
                                                     ELSE "parse_error"))>>)
           /\ Found(c, up)
    /\ GotFrame
    /\ Goto(c, "L228")
    /\ UNCHANGED <<dicts, name_counter, it, myname, swVars, hist>>
    /\ Sched(c)

\* lines 140-163: json.loads raises; an error is sent back (a failing
\* send is swallowed) and the loop continues.
RecvUndecodable(c, f) ==
    /\ CanReceive(c)
    /\ f.kind \in {"badjson", "badbytes"}
    /\ \E up \in Outcomes(c) :
           /\ BeginWith(c, f, <<Sent(c, up, ErrorMsg(IF f.kind = "badjson"
                                                     THEN "invalid_json"
                                                     ELSE "parse_error"))>>)
           /\ Found(c, up)
    /\ GotFrame
    /\ Goto(c, "L135")
    /\ UNCHANGED <<dicts, name_counter, it, myname, swVars, hist>>
    /\ Sched(c)

\* line 164 on a payload that is no object (TypeError) or has no "type"
\* (KeyError): the except of line 224 swallows it, the finally block runs.
RecvNoType(c, f) ==
    /\ CanReceive(c)
    /\ f.kind = "nonobject" \/ (f.kind = "object" /\ "type" \notin f.has)
    /\ Begin(c, f)
    /\ GotFrame
    /\ Goto(c, "L228")
    /\ UNCHANGED <<dicts, name_counter, net, it, myname, swVars, hist>>
    /\ Sched(c)

\* lines 164-223 with a type none of the branches names: nothing is done.
RecvUnknown(c, f) ==
    /\ CanReceive(c)
    /\ f.kind = "object" /\ "type" \in f.has /\ f.type \notin KnownTypes
    /\ Begin(c, f)
    /\ GotFrame
    /\ Goto(c, "L135")
    /\ UNCHANGED <<dicts, name_counter, net, it, myname, swVars,
                   hist>>
    /\ Sched(c)

Typed(f, t) == f.kind = "object" /\ "type" \in f.has /\ f.type = t

\* A branch that found its fields stores, creates the iterator of its
\* loop and goes to the loop; one that did not raises KeyError.
Branch(c, f, line) ==
    IF Required(f.type) \subseteq f.has
    THEN /\ Goto(c, line)
         /\ it' = [it EXCEPT ![c] = NewIter(clients)]
    ELSE /\ Goto(c, "L228")
         /\ UNCHANGED it

\* lines 164-168
RecvMove(c, f) ==
    /\ CanReceive(c)
    /\ Typed(f, "move")
    /\ Begin(c, f)
    /\ GotFrame
    /\ positions' = IF Required(f.type) \subseteq f.has
                    THEN DSet(positions, c, MovePos) ELSE positions
    /\ Branch(c, f, "L168")
    /\ UNCHANGED <<clients, sprites, names, name_counter, net, myname,
                   swVars, hist>>
    /\ Sched(c)

\* lines 179-181: the chat branch reads data['message'] only in the loop.
RecvChat(c, f) ==
    /\ CanReceive(c)
    /\ Typed(f, "chat")
    /\ Begin(c, f)
    /\ GotFrame
    /\ Goto(c, "L181")
    /\ it' = [it EXCEPT ![c] = NewIter(clients)]
    /\ UNCHANGED <<dicts, name_counter, net, myname, swVars, hist>>
    /\ Sched(c)

\* RecvSprite with the store of line 195 made into names.
RecvSpriteIntoNames(c, f) ==
    /\ CanReceive(c)
    /\ Typed(f, "update_sprite")
    /\ Begin(c, f)
    /\ GotFrame
    /\ names' = IF Required(f.type) \subseteq f.has
                THEN DSet(names, c, NewSprite) ELSE names
    /\ Branch(c, f, "L197")
    /\ UNCHANGED <<clients, positions, sprites, name_counter, net,
                   myname, swVars, hist>>
    /\ Sched(c)

\* lines 193-197
RecvSprite(c, f) ==
    /\ CanReceive(c)
    /\ Typed(f, "update_sprite")
    /\ Begin(c, f)
    /\ GotFrame
    /\ sprites' = IF Required(f.type) \subseteq f.has
                  THEN DSet(sprites, c, NewSprite) ELSE sprites
    /\ Branch(c, f, "L197")
    /\ UNCHANGED <<clients, positions, names, name_counter, net,
                   myname, swVars, hist>>
    /\ Sched(c)

\* lines 208-213
RecvName(c, f) ==
    /\ CanReceive(c)
    /\ Typed(f, "update_name")
    /\ Begin(c, f)
    /\ GotFrame
    /\ names' = IF Required(f.type) \subseteq f.has
                THEN DSet(names, c, NewName) ELSE names
    /\ Branch(c, f, "L213")
    /\ UNCHANGED <<clients, positions, sprites, name_counter, net,
                   myname, swVars, hist>>
    /\ Sched(c)

\* Fanout without the try around the send: a send that raises reaches
\* the except of line 224.
FanoutAborts(c, line, after, toSelf, built, msg) ==
    /\ pc[c] = line
    /\ LET n == IterNext(clients, it[c]) IN
       /\ it' = [it EXCEPT ![c] = n.it]
       /\ IF n.r = "item" /\ (toSelf \/ n.key # c) /\ built
          THEN \E up \in Outcomes(n.key) :
                   /\ Send(c, n.key, up, msg)
                   /\ Goto(c, IF up THEN line ELSE "L228")
          ELSE /\ NoSend
               /\ Goto(c, CASE n.r = "error" -> "L228"
                            [] n.r = "stop" -> after
                            [] OTHER -> line)
    /\ UNCHANGED <<dicts, name_counter, myname, op, began, swVars, frames,
                   hist>>
    /\ Sched(c)

\* One iteration of a loop over clients.items() in the receive loop: the
\* iterator's RuntimeError reaches the except of line 224; the payload's
\* KeyError (built is false) and a failing send are swallowed by the try
\* around the send.  after is the line that follows the loop.
Fanout(c, line, after, toSelf, built, msg) ==
    /\ pc[c] = line
    /\ LET n == IterNext(clients, it[c]) IN
       /\ it' = [it EXCEPT ![c] = n.it]
       /\ Goto(c, CASE n.r = "error" -> "L228"
                    [] n.r = "stop" -> after
                    [] OTHER -> line)
       /\ IF n.r = "item" /\ (toSelf \/ n.key # c) /\ built
          THEN \E up \in Outcomes(n.key) : Send(c, n.key, up, msg)
          ELSE NoSend
    /\ UNCHANGED <<dicts, name_counter, myname, op, began, swVars, frames,
                   hist>>
    /\ Sched(c)

\* lines 168-178
MoveFanout(c) ==
    Fanout(c, "L168", "L135", FALSE, TRUE, MoveMsg(c, MovePos))

\* lines 181-192: names[client_id] and data['message'] are read inside
\* the try; line 192 reads data['message'] again, outside it.
ChatFanout(c) ==
    Fanout(c, "L181", IF "message" \in op[c].has THEN "L135" ELSE "L228",
           TRUE, DHas(names, c) /\ "message" \in op[c].has,
           ChatMsg(c, names.val[c], ChatText))

\* lines 197-207
SpriteFanout(c) ==
    Fanout(c, "L197", "L135", FALSE, TRUE, SpriteMsg(c, NewSprite))

\* lines 213-223
NameFanout(c) ==
    Fanout(c, "L213", "L135", FALSE, TRUE, NameMsg(c, NewName))

\* ---------------------------------------------- websocket: finally
CheckLines == {"L228", "L230", "L232", "L234"}

DelLines == {"L229", "L231", "L233", "L235"}

\* The dict a line of the finally block, or of the sweeper's removal,
\* tests or deletes from.
DictAt(line) ==
    CASE line \in {"L228", "L229", "L60", "L61"} -> clients
      [] line \in {"L230", "L231", "L62", "L63"} -> positions
      [] line \in {"L232", "L233", "L64", "L65"} -> sprites
      [] line \in {"L234", "L235", "L66", "L67"} -> names

\* The line after a test that found the key (TRUE) or did not (FALSE).
AfterCheck(line, found) ==
    CASE line = "L228" -> IF found THEN "L229" ELSE "L230"
      [] line = "L230" -> IF found THEN "L231" ELSE "L232"
      [] line = "L232" -> IF found THEN "L233" ELSE "L234"
      [] line = "L234" -> IF found THEN "L235" ELSE "L237"
      [] line = "L60" -> IF found THEN "L61" ELSE "L62"
      [] line = "L62" -> IF found THEN "L63" ELSE "L64"
      [] line = "L64" -> IF found THEN "L65" ELSE "L66"
      [] line = "L66" -> IF found THEN "L67" ELSE "L77"

\* The line after a del that succeeded.
AfterDel(line) ==
    CASE line = "L229" -> "L230"
      [] line = "L231" -> "L232"
      [] line = "L233" -> "L234"
      [] line = "L235" -> "L237"
      [] line = "L61" -> "L62"
      [] line = "L63" -> "L64"
      [] line = "L65" -> "L66"
      [] line = "L67" -> "L77"

\* The dicts after del d[k] at line.
DelAt(line, k) ==
    /\ clients' = IF line \in {"L229", "L61"}
                  THEN DDel(clients, k, 0) ELSE clients
    /\ positions' = IF line \in {"L231", "L63"}
                    THEN DDel(positions, k, NoPos) ELSE positions
    /\ sprites' = IF line \in {"L233", "L65"}
                  THEN DDel(sprites, k, NoStr) ELSE sprites
    /\ names' = IF line \in {"L235", "L67"}
                THEN DDel(names, k, NoStr) ELSE names
    /\ delCount' = IF line \in {"L229", "L61"}
                   THEN [delCount EXCEPT ![k] = @ + 1] ELSE delCount

\* A finally block that tests the four dicts and deletes from none.
FinallyCheckOnly(c) ==
    /\ pc[c] \in CheckLines
    /\ LET to == AfterCheck(pc[c], FALSE) IN
       /\ Goto(c, to)
       /\ it' = [it EXCEPT ![c] = IF to = "L237" THEN NewIter(clients) ELSE @]
       /\ unregistered' = IF to = "L237" THEN unregistered \cup {c}
                          ELSE unregistered
    /\ IF pc[c] = "L228" THEN Begin(c, CloseOp)
       ELSE UNCHANGED <<op, began, sends>>
    /\ UNCHANGED <<dicts, name_counter, net, myname, swVars, frames,
                   delCount, evicted, unCount>>
    /\ Sched(c)

\* lines 228, 230, 232, 234: if client_id in <dict>.  Line 237 creates
\* the iterator of the notification loop.
FinallyCheck(c) ==
    /\ pc[c] \in CheckLines
    /\ LET to == AfterCheck(pc[c], DHas(DictAt(pc[c]), c)) IN
       /\ Goto(c, to)
       /\ it' = [it EXCEPT ![c] = IF to = "L237" THEN NewIter(clients) ELSE @]
       /\ unregistered' = IF to = "L237" THEN unregistered \cup {c}
                          ELSE unregistered
    /\ IF pc[c] = "L228" THEN Begin(c, CloseOp)
       ELSE UNCHANGED <<op, began, sends>>
    /\ UNCHANGED <<dicts, name_counter, net, myname, swVars, frames,
                   delCount, evicted, unCount>>
    /\ Sched(c)

\* lines 229, 231, 233, 235: del <dict>[client_id].  A KeyError leaves
\* the finally block and the handler.
FinallyDel(c) ==
    /\ pc[c] \in DelLines
    /\ IF DHas(DictAt(pc[c]), c)
       THEN /\ DelAt(pc[c], c)
            /\ Goto(c, AfterDel(pc[c]))
            /\ it' = [it EXCEPT ![c] = IF pc[c] = "L235"
                                       THEN NewIter(clients') ELSE @]
            /\ unregistered' = IF pc[c] = "L235" THEN unregistered \cup {c}
                               ELSE unregistered
       ELSE /\ Goto(c, "raise")
            /\ UNCHANGED <<dicts, delCount, it, unregistered>>
    /\ UNCHANGED <<name_counter, net, myname, op, began, sends,
                   swVars, frames, evicted, unCount>>
    /\ Sched(c)

\* One more user_names send that returned, to r, on the departure of d.
Notified(d, r, up) ==
    unCount' = IF up THEN [unCount EXCEPT ![d][r] = @ + 1] ELSE unCount

\* lines 237-244, one iteration.  The iterator's RuntimeError is outside
\* every try.
Notify(c) ==
    /\ pc[c] = "L237"
    /\ LET n == IterNext(clients, it[c]) IN
       /\ it' = [it EXCEPT ![c] = n.it]
       /\ Goto(c, CASE n.r = "error" -> "raise"
                    [] n.r = "stop" -> "return"
                    [] OTHER -> "L237")
       /\ IF n.r = "item"
          THEN \E up \in Outcomes(n.key) :
                   /\ Send(c, n.key, up, UserNamesMsg(DValues(names)))
                   /\ Notified(c, n.key, up)
          ELSE /\ NoSend
               /\ UNCHANGED unCount
    /\ UNCHANGED <<dicts, name_counter, myname, op, began, swVars, frames,
                   delCount, evicted, unregistered>>
    /\ Sched(c)

\* The handler moves on from the end of an operation: back into
\* ws.receive(), or out of websocket(ws).  Its locals are dropped.
MoveOn(c) ==
    /\ pc[c] \in Ended
    /\ Goto(c, CASE pc[c] = "L135" -> "L136"
                 [] pc[c] = "return" -> "done"
                 [] pc[c] = "raise" -> "dead")
    /\ it' = [it EXCEPT ![c] = NoIter]
    /\ myname' = [myname EXCEPT ![c] = NoStr]
    /\ BeginWith(c, NoFrame, <<>>)
    /\ UNCHANGED <<dicts, name_counter, net, swVars, frames, hist>>
    /\ Sched(c)

\* ------------------------------------- cleanup_disconnected_clients
hVars == <<pc, it, myname, op, began, sends>>

\* The client the sweeper is probing or removing.
Victim == sw.snap[sw.idx]

\* lines 51-53: the sleep ends; list(clients.items()) is the snapshot.
Tick ==
    /\ sw.pc = "L51"
    /\ MayHappen(ticks, MaxTicks)
    /\ ticks' = ticks + 1
    /\ sw' = [SwIdle EXCEPT !.pc = "L53", !.snap = DList(clients), !.idx = 1]
    /\ UNCHANGED <<dicts, name_counter, net, hVars, swSends, frames, hist>>
    /\ SchedCleanup

\* A ping whose outcome is not looked at: the removal starts either way.
PingThenRemove ==
    /\ sw.pc = "L53"
    /\ IF sw.idx > Len(sw.snap)
       THEN /\ sw' = SwIdle
            /\ UNCHANGED <<swSends, net>>
       ELSE \E up \in Outcomes(Victim) :
                /\ Found(Victim, up)
                /\ sw' = [sw EXCEPT !.pc = "L60"]
                /\ swSends' = <<>>
    /\ UNCHANGED <<dicts, name_counter, hVars, frames, ticks, hist>>
    /\ SchedCleanup

\* lines 53-57, one iteration: the ping.  The loop ends after the last
\* snapshot entry; a ping that raises starts the removal.
Ping ==
    /\ sw.pc = "L53"
    /\ IF sw.idx > Len(sw.snap)
       THEN /\ sw' = SwIdle
            /\ UNCHANGED <<swSends, net>>
       ELSE \E up \in Outcomes(Victim) :
                /\ Found(Victim, up)
                /\ sw' = IF up THEN [sw EXCEPT !.idx = @ + 1]
                         ELSE [sw EXCEPT !.pc = "L60"]
                /\ swSends' = IF up THEN swSends ELSE <<>>
    /\ UNCHANGED <<dicts, name_counter, hVars, frames, ticks, hist>>
    /\ SchedCleanup

\* The sweeper reaches line 77: list(clients.items()) is the snapshot of
\* the clients to notify.
ToNotify(line) ==
    IF line = "L77"
    THEN [sw EXCEPT !.pc = "L77", !.notify = DList(clients'), !.nidx = 1]
    ELSE [sw EXCEPT !.pc = line]

\* lines 60, 62, 64, 66: if client_id in <dict>
EvictCheck ==
    /\ sw.pc \in {"L60", "L62", "L64", "L66"}
    /\ UNCHANGED dicts
    /\ LET to == AfterCheck(sw.pc, DHas(DictAt(sw.pc), Victim)) IN
       /\ sw' = ToNotify(to)
       /\ evicted' = IF to = "L77" THEN evicted \cup {Victim} ELSE evicted
    /\ UNCHANGED <<name_counter, net, hVars, swSends, frames, ticks,
                   delCount, unregistered, unCount>>
    /\ SchedCleanup

\* A removal that ends after its first del.
EvictDelOnce ==
    /\ sw.pc \in {"L61", "L63", "L65", "L67"}
    /\ IF DHas(DictAt(sw.pc), Victim)
       THEN DelAt(sw.pc, Victim)
       ELSE UNCHANGED <<dicts, delCount>>
    /\ sw' = ToNotify("L77")
    /\ evicted' = evicted \cup {Victim}
    /\ UNCHANGED <<name_counter, net, hVars, swSends, frames, ticks,
                   unregistered, unCount>>
    /\ SchedCleanup

\* lines 61, 63, 65: del <dict>[client_id]; a KeyError is caught at line
\* 70 and skips the rest of the removal.  Line 67: names.pop(client_id,
\* None), which never raises.
EvictDel ==
    /\ sw.pc \in {"L61", "L63", "L65", "L67"}
    /\ IF DHas(DictAt(sw.pc), Victim)
       THEN /\ DelAt(sw.pc, Victim)
            /\ sw' = ToNotify(AfterDel(sw.pc))
            /\ evicted' = IF sw.pc = "L67" THEN evicted \cup {Victim}
                          ELSE evicted
       ELSE /\ UNCHANGED <<dicts, delCount>>
            /\ sw' = ToNotify("L77")
            /\ evicted' = evicted \cup {Victim}
    /\ UNCHANGED <<name_counter, net, hVars, swSends, frames, ticks,
                   unregistered, unCount>>
    /\ SchedCleanup

\* lines 77-84, one iteration: user_names to a client of the snapshot.
SweepNotify ==
    /\ sw.pc = "L77"
    /\ IF sw.nidx > Len(sw.notify)
       THEN /\ sw' = [sw EXCEPT !.pc = "L53", !.idx = @ + 1, !.notify = <<>>,
                                !.nidx = 0]
            /\ UNCHANGED <<swSends, unCount, net>>
       ELSE \E up \in Outcomes(sw.notify[sw.nidx]) :
                LET k == sw.notify[sw.nidx] IN
                /\ sw' = [sw EXCEPT !.nidx = @ + 1]
                /\ swSends' = Append(swSends,
                                     Sent(k, up, UserNamesMsg(DValues(names))))
                /\ Found(k, up)
                /\ Notified(Victim, k, up)
    /\ UNCHANGED <<dicts, name_counter, hVars, frames, ticks, delCount,
                   evicted, unregistered>>
    /\ SchedCleanup

\* ------------------------------------------------------- specification
Next ==
    \/ \E c \in Ids :
        \/ Connect(c)
        \/ StorePosition(c)
        \/ StoreSprite(c)
        \/ assign_display_name(c)
        \/ StoreName(c)
        \/ LogConnected(c)
        \/ Announce(c)
        \/ Replay(c)
        \/ RecvClosed(c)
        \/ MoveFanout(c)
        \/ ChatFanout(c)
        \/ SpriteFanout(c)
        \/ NameFanout(c)
        \/ FinallyCheck(c)
        \/ FinallyDel(c)
        \/ Notify(c)
        \/ MoveOn(c)
    \/ \E c \in Ids, f \in Frames :
        \/ RecvUndecodable(c, f)
        \/ RecvNoType(c, f)
        \/ RecvUnknown(c, f)
        \/ RecvMove(c, f)
        \/ RecvChat(c, f)
        \/ RecvSprite(c, f)
        \/ RecvName(c, f)
    \/ Tick
    \/ Ping
    \/ EvictCheck
    \/ EvictDel
    \/ SweepNotify

Spec == Init /\ [][Next]_vars

\* ------------------------------------------------------------ properties
\* The sends of handler c's current operation that went to r, in order.
SendsTo(c, r) == SelectSeq(sends[c], LAMBDA s : s.to = r)

\* The recipients handler c's current operation has called send on.
Attempted(c) == {sends[c][i].to : i \in 1..Len(sends[c])}

\* No other thread ran since c's operation began.
Undisturbed(c) == began[c].preempts = preempts

\* Every thread is outside every operation.
Quiescent == sw.pc = "L51" /\ \A c \in Ids : pc[c] \in Resting

\* Sessions that have completed lines 97-100 and whose close has not
\* completed, by the handler's finally block or by the sweeper.
Registered ==
    {c \in Ids : /\ pc[c] \notin {"idle", "L98", "L99", "L100", "L100s"}
                 /\ c \notin evicted \cup unregistered}

MoveFrame == Frame("object", "move", {"type", "x", "y"})

ChatFrame == Frame("object", "chat", {"type", "message"})

FullFrames ==
    {f \in Frames : f.type \in KnownTypes /\ Required(f.type) \subseteq f.has}

\* json.loads raises on the frame.
Undecodable(f) == f.kind \in {"badjson", "badbytes"}

\* The frame decodes, and is no object or lacks "type" or a field its
\* type requires.
Incomplete(f) ==
    \/ f.kind = "nonobject"
    \/ f.kind = "object" /\ ~(({"type"} \cup Required(f.type)) \subseteq f.has)

\* The frame decodes to an object whose type no branch names.
Unknown(f) ==
    f.kind = "object" /\ "type" \in f.has /\ f.type \notin KnownTypes

\* Handler c's operation is exactly one error message, sent to c.
OneErrorReply(s, c) ==
    /\ Len(s) = 1
    /\ s[1].to = c
    /\ s[1].msg.type = "error"

\* C1: close is idempotent: with the close of one session run from both
\* sources (the handler's finally block and the sweeper's eviction), in
\* either order, its clients entry is deleted at most once and no session
\* gets more than one user_names message for that departure.
C1_CloseOnce ==
    \A d \in Ids :
        /\ delCount[d] <= 1
        /\ \A r \in Ids : unCount[d][r] <= 1

\* C2: whenever no thread is inside an operation, each of the four maps
\* has as many entries as there are sessions that completed registration
\* and have not completed their close.
C2_RegistrySize ==
    Quiescent =>
        /\ DUsed(clients) = Cardinality(Registered)
        /\ DUsed(positions) = Cardinality(Registered)
        /\ DUsed(sprites) = Cardinality(Registered)
        /\ DUsed(names) = Cardinality(Registered)

\* C3: a session the sweeper evicted was removed from clients exactly
\* once, and once a session has been sent a user_names message for that
\* departure it is never sent another one, by the sweeper or by the
\* evicted session's handler.
C3_EvictedNotifiedOnce ==
    /\ [](\A d \in evicted : delCount[d] = 1)
    /\ [][\A d \in evicted, r \in Ids :
              unCount[d][r] >= 1 => unCount'[d][r] = unCount[d][r]]_vars

\* C4: a move{x,y} processed for session a stores exactly {x,y} as a's
\* position; when its processing has ended, every other session that was
\* registered when it began and still is has been sent move{id=a,x,y},
\* and a itself has been sent nothing.
C4_MoveDelivered ==
    /\ [][\A a \in Ids : (op'[a] = MoveFrame /\ op[a] # MoveFrame) =>
              /\ DHas(positions', a)
              /\ positions'.val[a] = MovePos]_vars
    /\ [](\A a \in Ids : (op[a] = MoveFrame /\ pc[a] \in {"L135", "L228"}) =>
              /\ SendsTo(a, a) = <<>>
              /\ \A r \in (began[a].reg \cap DKeys(clients)) \ {a} :
                    \E i \in 1..Len(sends[a]) :
                        /\ sends[a][i].to = r
                        /\ sends[a][i].msg = MoveMsg(a, MovePos))

\* C5: when the processing of a chat frame of session a has ended and a
\* stays in its receive loop, every session that was registered when it
\* began and still is (a included) has been sent a chat message with a's
\* id, a display name and the text.
C5_ChatDelivered ==
    \A a \in Ids : (op[a] = ChatFrame /\ pc[a] = "L135") =>
        \A r \in began[a].reg \cap DKeys(clients) :
            \E i \in 1..Len(sends[a]) :
                /\ sends[a][i].to = r
                /\ sends[a][i].msg.type = "chat"
                /\ sends[a][i].msg.id = a
                /\ sends[a][i].msg.name # NoStr
                /\ sends[a][i].msg.text = ChatText

\* C6: a frame json.loads rejects makes its handler send exactly one
\* error message, to its own connection, leaves the four maps unchanged
\* and leaves the handler in the receive loop.
C6_UndecodableFrame ==
    [][\A c \in Ids : (op'[c] # op[c] /\ Undecodable(op'[c])) =>
           /\ dicts' = dicts
           /\ pc'[c] = "L135"
           /\ OneErrorReply(sends'[c], c)]_vars

C6_Witness ==
    \E c \in Ids :
        /\ pc[c] = "L135"
        /\ Undecodable(op[c])
        /\ OneErrorReply(sends[c], c)
        /\ sends[c][1].ok
        /\ DUsed(clients) >= 2

\* C7: when the processing of a frame that decodes but is no object, or
\* lacks "type" or a field its type requires, has ended, its handler is
\* still in the receive loop and has sent one error message to its own
\* connection.
C7_IncompleteFrame ==
    \A c \in Ids : (Incomplete(op[c]) /\ pc[c] \in Ended \cup {"L228"}) =>
        /\ pc[c] = "L135"
        /\ OneErrorReply(sends[c], c)

\* C8: a frame whose type is none of move, chat, update_sprite,
\* update_name is answered with one error message, to the sender only;
\* the four maps are unchanged and the handler stays in the receive loop.
C8_UnknownErrorReply ==
    [][\A c \in Ids : (op'[c] # op[c] /\ Unknown(op'[c])) =>
           /\ dicts' = dicts
           /\ pc'[c] = "L135"
           /\ OneErrorReply(sends'[c], c)]_vars

\* Session y connected with nothing else in progress: no other thread
\* ran during the connect, every other thread is outside every operation
\* and every registered connection is up.
ConnectedAlone(y) ==
    /\ pc[y] = "L135"
    /\ op[y] = ConnectOp
    /\ Undisturbed(y)
    /\ sw.pc = "L51"
    /\ \A c \in Ids \ {y} : pc[c] \in Resting
    /\ \A x \in DKeys(clients) : connected[x]

\* C9: a session y that connected with nothing else in progress has been
\* sent exactly one new_player message for each session x registered
\* before it, with x's stored position, sprite and name, and each such x
\* has been sent exactly one new_player message for y with the default
\* position.
C9_ConnectReplay ==
    \A y \in Ids : ConnectedAlone(y) =>
        /\ DKeys(clients) = began[y].reg \cup {y}
        /\ Len(SendsTo(y, y)) = Cardinality(began[y].reg)
        /\ \A x \in began[y].reg :
              /\ \E i \in 1..Len(sends[y]) :
                    sends[y][i] = Sent(y, TRUE,
                                       NewPlayerMsg(x, positions.val[x],
                                                    sprites.val[x],
                                                    names.val[x]))
              /\ DHas(positions, x) /\ DHas(sprites, x) /\ DHas(names, x)
              /\ SendsTo(y, x) = <<Sent(x, TRUE,
                                        NewPlayerMsg(y, DefaultPos,
                                                     DefaultSprite,
                                                     names.val[y]))>>

\* The lines of a handler's broadcast loops.
LoopLines == {"L105", "L168", "L181", "L197", "L213", "L237"}

\* The step appends a send that raised to log s.
FailedSend(s, t) == Len(t) = Len(s) + 1 /\ ~t[Len(t)].ok

\* The recipients of the broadcast of frame f by c, when nothing
\* interferes: every client but c, every client for a chat.
Recipients(c, f) ==
    IF f.type = "chat" THEN DKeys(clients) ELSE DKeys(clients) \ {c}

\* C10: a send that raises in a broadcast loop (new_player announcement,
\* move, chat, update_sprite, update_name, user_names) leaves the sender
\* in the loop with its iterator moved on, and changes none of the four
\* maps; a broadcast that ran undisturbed has called send for every
\* recipient, the failing ones included.
C10_FailedSendIsolated ==
    /\ [][/\ \A c \in Ids :
                (pc[c] \in LoopLines /\ FailedSend(sends[c], sends'[c])) =>
                /\ pc'[c] = pc[c]
                /\ it'[c].pos > it[c].pos
                /\ dicts' = dicts
          /\ (sw.pc = "L77" /\ FailedSend(swSends, swSends')) =>
                /\ sw'.pc = "L77"
                /\ sw'.nidx = sw.nidx + 1
                /\ dicts' = dicts]_vars
    /\ [](\A c \in Ids :
              (/\ op[c] \in FullFrames
               /\ pc[c] = "L135"
               /\ Undisturbed(c)
               /\ op[c].type = "chat" => DHas(names, c)) =>
                  Attempted(c) = Recipients(c, op[c]))

C10_Witness ==
    \E c \in Ids :
        /\ op[c] = MoveFrame
        /\ pc[c] = "L135"
        /\ Undisturbed(c)
        /\ Len(sends[c]) = 2
        /\ ~sends[c][1].ok
        /\ sends[c][2].ok

\* The step is taken by handler c.
StepOf(c) ==
    <<pc[c], it[c], op[c], sends[c]>>' # <<pc[c], it[c], op[c], sends[c]>>

\* Handler c is processing an inbound frame after the step.
InFrame(c) == op'[c].kind \notin {"none", "connect", "close"}

\* Dict e differs from dict d at most in the entry of key a.
OnlyKey(d, e, a) ==
    \A b \in Ids \ {a} : DHas(e, b) = DHas(d, b) /\ e.val[b] = d.val[b]

SpriteFrame == Frame("object", "update_sprite", {"type", "sprite"})

NameFrame == Frame("object", "update_name", {"type", "name"})

\* C11: while handler a processes an inbound frame, its steps leave
\* clients alone and change positions only for a move, sprites only for
\* an update_sprite, names only for an update_name (a chat changes
\* nothing), and then only the entry of a, which gets the value sent.
C11_OwnFieldOnly ==
    [][\A a \in Ids : (StepOf(a) /\ InFrame(a)) =>
           /\ clients' = clients
           /\ OnlyKey(positions, positions', a)
           /\ OnlyKey(sprites, sprites', a)
           /\ OnlyKey(names, names', a)
           /\ positions' # positions => op'[a].type = "move"
           /\ sprites' # sprites => op'[a].type = "update_sprite"
           /\ names' # names => op'[a].type = "update_name"
           /\ (op'[a] # op[a] /\ op'[a] = MoveFrame) =>
                  positions'.val[a] = MovePos
           /\ (op'[a] # op[a] /\ op'[a] = SpriteFrame) =>
                  sprites'.val[a] = NewSprite
           /\ (op'[a] # op[a] /\ op'[a] = NameFrame) =>
                  names'.val[a] = NewName]_vars

C11_Witness ==
    /\ pc[1] = "L135"
    /\ op[1] = SpriteFrame
    /\ sprites.val[1] = NewSprite
    /\ sprites.val[2] = DefaultSprite
    /\ positions.val[1] = DefaultPos
    /\ names.val[1] = PlayerName(1)
    /\ names.val[2] = PlayerName(2)

\* C12: when handler d has completed its close with no other thread
\* running meanwhile, every session in clients has been sent a user_names
\* message whose users list is the display names of the sessions in
\* clients, every one of them having a name, and has no entry for d.
C12_CloseRoster ==
    \A d \in Ids : (pc[d] = "return" /\ op[d] = CloseOp /\ Undisturbed(d)) =>
        /\ ~DHas(names, d)
        /\ \A k \in DKeys(clients) : DHas(names, k)
        /\ \A r \in DKeys(clients) :
              \E i \in 1..Len(sends[d]) :
                  /\ sends[d][i].to = r
                  /\ sends[d][i].msg = UserNamesMsg(DValues(names))

\* C13: a handler inside a broadcast loop (announcement, move, chat,
\* update_sprite, update_name, user_names) never leaves it by an
\* exception, whatever joins or leaves meanwhile; and when a move,
\* update_sprite or update_name fan-out has ended, every other session
\* registered from its beginning to its end has been sent the message
\* exactly once.
C13_FanoutSurvives ==
    /\ [][\A a \in Ids :
              (/\ pc[a] \in LoopLines
               /\ op[a] \in FullFrames \cup {ConnectOp, CloseOp}) =>
                  pc'[a] \notin {"L228", "raise"}]_vars
    /\ [](\A a \in Ids :
              (op[a] \in FullFrames \ {ChatFrame} /\ pc[a] = "L135") =>
                  \A r \in (began[a].reg \cap DKeys(clients)) \ {a} :
                      Len(SendsTo(a, r)) = 1)

\* Session c has an entry in each of the four maps, or in none.
AllOrNone(c) ==
    /\ DHas(positions, c) = DHas(clients, c)
    /\ DHas(sprites, c) = DHas(clients, c)
    /\ DHas(names, c) = DHas(clients, c)

\* C14: whenever a handler y is inside an operation, every other session
\* has an entry in each of clients, positions, sprites and names, or in
\* none of them.
C14_NoTornEntry ==
    \A c \in Ids : \A y \in Ids \ {c} : pc[y] \notin Resting => AllOrNone(c)

\* ------------------------------------------------------------- liveness
\* A step of handler c that needs nothing from its peer: every step but
\* the connect and the arrival of a frame; the close is reported to a
\* handler waiting in ws.receive() once the transport is down.
HandlerStep(c) ==
    \/ StorePosition(c)
    \/ StoreSprite(c)
    \/ assign_display_name(c)
    \/ StoreName(c)
    \/ LogConnected(c)
    \/ Announce(c)
    \/ Replay(c)
    \/ ~connected[c] /\ RecvClosed(c)
    \/ MoveFanout(c)
    \/ ChatFanout(c)
    \/ SpriteFanout(c)
    \/ NameFanout(c)
    \/ FinallyCheck(c)
    \/ FinallyDel(c)
    \/ Notify(c)
    \/ MoveOn(c)

\* A step of the cleanup thread inside its loop.
CleanupStep == Ping \/ EvictCheck \/ EvictDel \/ SweepNotify

\* Every thread that can run is run in the end.
FairSpec ==
    /\ Spec
    /\ \A c \in Ids : WF_vars(HandlerStep(c))
    /\ WF_vars(CleanupStep)

\* Session c has no entry in any of the four maps.
Gone(c) ==
    /\ ~DHas(clients, c)
    /\ ~DHas(positions, c)
    /\ ~DHas(sprites, c)
    /\ ~DHas(names, c)

\* C15: a session whose transport is down while its handler is in the
\* receive loop in the end has no entry in clients, positions, sprites
\* and names, and its handler has left websocket(ws).
C15_ClosedInTheEnd ==
    \A c \in Ids :
        (pc[c] = "L136" /\ ~connected[c])
            ~> (Gone(c) /\ pc[c] \in {"done", "dead"})

C15_Witness ==
    \E c \in Ids :
        /\ pc[c] = "dead"
        /\ c \in evicted
        /\ ~connected[c]
        /\ delCount[c] = 1
        /\ Gone(c)
        /\ sw.pc = "L51"

\* The sessions whose call of assign_display_name() has returned.
Named == {c \in Ids : pc[c] \notin {"idle", "L98", "L99", "L100"}}

\* Session c is between the return of assign_display_name() and the
\* store of line 100.
Holding(c) == pc[c] = "L100s"

\* C16: the k-th call of assign_display_name() returns Player<k>,
\* whatever the order in which the connecting handlers are scheduled:
\* name_counter is one more than the number of calls that returned, it
\* moves only by one, upwards, and only in a step that hands
\* Player<name_counter> to one session; no two sessions hold the same name.
C16_SequentialNames ==
    /\ [](/\ name_counter = Cardinality(Named) + 1
          /\ \A c \in Ids : \A d \in Ids \ {c} :
                 (Holding(c) /\ Holding(d)) => myname[c] # myname[d]
          /\ \A c \in Ids : Holding(c) =>
                 \E k \in 1..(name_counter - 1) : myname[c] = PlayerName(k))
    /\ [][/\ name_counter' \in {name_counter, name_counter + 1}
          /\ name_counter' = name_counter + 1 =>
                 \E c \in Ids :
                     /\ pc[c] = "L100"
                     /\ Holding(c)'
                     /\ myname'[c] = PlayerName(name_counter)
                     /\ \A d \in Ids \ {c} : pc'[d] = pc[d]
          /\ \A c \in Ids : (pc[c] = "L100" /\ pc'[c] # "L100") =>
                 name_counter' = name_counter + 1
          /\ \A c \in Ids : (Holding(c) /\ ~Holding(c)') =>
                 /\ names'.val[c] = myname[c]
                 /\ DHas(names', c)]_vars

\* The handler that connected later was served first: it has stored
\* Player1 and the earlier one holds Player2.
C16_Witness ==
    \E c \in Ids : \E d \in Ids \ {c} :
        /\ c < d
        /\ DHas(names, d)
        /\ names.val[d] = PlayerName(1)
        /\ Holding(c)
        /\ myname[c] = PlayerName(2)

\* C17: once the sweeper has evicted session c and c has no entry left,
\* a frame that c's handler takes from ws.receive() creates no entry for
\* c: positions, sprites and names get no key c, and so hold no key that
\* clients does not hold.
C17_NoEntryAfterEviction ==
    [][\A c \in evicted :
           (pc[c] = "L136" /\ pc'[c] # "L136" /\ Gone(c)) => Gone(c)']_vars

\* The new_player messages for session x that handler y sent to its own
\* connection.
ReplayedTo(y, x) ==
    SelectSeq(SendsTo(y, y),
              LAMBDA s : s.msg.type = "new_player" /\ s.msg.id = x)

\* Session x has its four entries and its handler waits in ws.receive().
Settled(x) ==
    /\ pc[x] = "L136"
    /\ DHas(clients, x)
    /\ DHas(positions, x)
    /\ DHas(sprites, x)
    /\ DHas(names, x)

\* C18: when handler y has finished lines 97-132 with no other thread
\* running in between and its own connection up, it has sent y exactly
\* one new_player message for every other session that has its four
\* entries, whatever entries other ids have in positions alone.
C18_ReplayComplete ==
    \A y \in Ids :
        (pc[y] = "L135" /\ op[y] = ConnectOp /\ Undisturbed(y)
            /\ connected[y]) =>
            \A x \in Ids \ {y} : Settled(x) => Len(ReplayedTo(y, x)) = 1

\* The finally block of handler c has ended, by its last line or by an
\* exception.
HandlerClosed(c) ==
    \/ pc[c] = "done"
    \/ pc[c] \in {"return", "raise"} /\ op[c] = CloseOp

\* C19: once the sweeper's removal of session c (lines 60-71) and the
\* finally block of c's handler (lines 228-235) have both ended, in
\* whatever order their steps were taken and whichever of them met a
\* KeyError, c has no entry in clients, positions, sprites and names.
C19_BothRemoved ==
    \A c \in Ids : (c \in evicted /\ HandlerClosed(c)) => Gone(c)

\* The handler met the KeyError: the sweeper removed a key between the
\* handler's test and its del.
C19_Witness ==
    \E c \in Ids :
        /\ c \in evicted
        /\ pc[c] = "raise"
        /\ op[c] = CloseOp
        /\ c \notin unregistered
        /\ Gone(c)

\* The lines of the sweeper's removal of one client.
RemovalLines == {"L60", "L61", "L62", "L63", "L64", "L65", "L66", "L67"}

\* Dict e is dict d without key k, or d itself.
WithoutAtMost(d, e, k) ==
    /\ DKeys(e) \subseteq DKeys(d)
    /\ DKeys(d) \ DKeys(e) \subseteq {k}
    /\ \A x \in DKeys(e) : e.val[x] = d.val[x]

\* C20: the sweeper deletes entries of one session only, the one whose
\* ping raised in this pass over the snapshot.  A removal starts only in
\* the step in which the ping to the snapshot entry at hand fails, it
\* keeps to that entry, a ping that returns moves the sweeper to the
\* next entry and it never goes back, and outside a removal the sweeper
\* changes no dict.
C20_RemovesOnlyFailedPing ==
    /\ [](sw.pc \in RemovalLines => ~connected[Victim])
    /\ [][sw' # sw =>
            /\ sw.pc \notin RemovalLines => dicts' = dicts
            /\ sw.pc \in RemovalLines =>
                  /\ WithoutAtMost(clients, clients', Victim)
                  /\ WithoutAtMost(positions, positions', Victim)
                  /\ WithoutAtMost(sprites, sprites', Victim)
                  /\ WithoutAtMost(names, names', Victim)
                  /\ sw'.snap = sw.snap
                  /\ sw'.idx = sw.idx
            /\ (sw.pc \notin RemovalLines /\ sw'.pc \in RemovalLines) =>
                  /\ sw.pc = "L53"
                  /\ sw'.pc = "L60"
                  /\ sw'.snap = sw.snap
                  /\ sw'.idx = sw.idx
                  /\ ~connected'[Victim]
            /\ (sw.pc = "L53" /\ sw.idx <= Len(sw.snap)
                    /\ connected'[Victim]) =>
                  sw' = [sw EXCEPT !.idx = @ + 1]
            /\ (sw.pc # "L51" /\ sw'.pc # "L51") =>
                  /\ sw'.snap = sw.snap
                  /\ sw'.idx >= sw.idx]_vars

\* In one pass a session's ping returned, it keeps its four entries, and
\* the session pinged after it was removed.
C20_Witness ==
    /\ sw.pc = "L77"
    /\ Victim \in evicted
    /\ Gone(Victim)
    /\ \E i \in 1..(sw.idx - 1) :
           /\ connected[sw.snap[i]]
           /\ Settled(sw.snap[i])

=============================================================================
